---- MODULE Spec2Model ----
(***************************************************************************)
(* Position ledger of the AI-Trader live agent.                            *)
(*                                                                         *)
(* The ledger is the file position.jsonl of one identity (signature): one  *)
(* JSON record per line.  It is written by tool_alpaca_trade.py            *)
(* (_init_local_positions, _record_local_position through buy_alpaca,      *)
(* sell_alpaca and sync_positions_from_alpaca) and by price_tools.py       *)
(* (add_no_trade_record), and read by _get_local_positions and             *)
(* get_latest_position.                                                    *)
(*                                                                         *)
(* A date label is the string "YYYY-MM-DD" or "YYYY-MM-DD HH:00:00".  It   *)
(* is modelled as [day, hour]: day counts calendar days from a Friday      *)
(* (day 0), hour is NoHour for the date-only form.  Two strings are equal  *)
(* exactly when the two records are.                                       *)
(*                                                                         *)
(* A positions dict is a function from a subset of the asset names and     *)
(* "CASH" to integers; money is counted in whole units.                    *)
(*                                                                         *)
(* Both modules are taken to address the same file (LOG_PATH is            *)
(* "./data/agent_data") in a directory that exists.  The storage fails     *)
(* only in SpecStorage: in every other specification it stays "ok".        *)
(***************************************************************************)
EXTENDS Integers, Sequences, FiniteSets, TLC

\* ------------------------------------------------------------------ bounds
MaxDay == 4
MaxLedger == 3
MaxCycleAppends == 2
MaxScan == 3
MaxHoldings == 2
MaxCalendarDay == 28
MaxLiveLedger == 2
MaxLiveAppends == 1

\* ------------------------------------------------------- program constants
DefaultCash == 10000
SaturdayWeekday == 5
MARKET_OPEN == 34200
MARKET_CLOSE == 57600

\* The entries of US_MARKET_HOLIDAYS from 2024-01-01 to 2024-05-27 as day
\* numbers: day 0 is 2024-03-01, so 2024-02-19 is -11 and 2024-03-29 is 28.
US_MARKET_HOLIDAYS == {0 - 60, 0 - 46, 0 - 11, 28, 87}

\* ------------------------------------------------------------ value domains
NoHour == 0 - 1
NoPrice == 0 - 1
Identity == "agent"

\* Orders are placed for Symbols; the broker account may hold another asset
\* (BrokerPositions), which a sync brings into the ledger.  Labels are
\* calendar dates of Monday-to-Friday days and decision hours of day 0.
Symbols == {"AAPL"}
Hours == {10, 11}
Days == 0..MaxDay
TradingDays == {d \in Days : (d + 4) % 7 < 5}
DateLabels == {[day |-> d, hour |-> NoHour] : d \in TradingDays}
HourLabels == {[day |-> 0, hour |-> h] : h \in Hours}
Labels == DateLabels \cup HourLabels
Unset == [day |-> 0 - 1, hour |-> NoHour]

Quantities == {0, 1}
\* Orders for two shares, which the broker can fill in part.
Lots == {0, 2}
FillPrices == {0, 100}
OrderOutcomes == {"filled", "partially_filled", "rejected", "pending", "exception"}
BrokerCash == {9900}
\* pos.qty, the decimal string of a quantity: whole shares and tenths.
Decimal(whole, tenths) == [whole |-> whole, tenths |-> tenths]
BrokerPositions ==
    {[k \in {} |-> Decimal(0, 0)], [k \in {"MSFT"} |-> Decimal(1, 0)],
     [k \in {"MSFT"} |-> Decimal(1, 5)]}
BrokerQty == {0, 1, 2}
InitialCashValues == {DefaultCash}

\* ------------------------------------------------------------------- state
VARIABLES
    exists,        \* os.path.exists(position.jsonl)
    ledger,        \* the lines of position.jsonl, in file order
    TODAY_DATE,    \* runtime config value TODAY_DATE (Unset when absent)
    SIGNATURE,     \* runtime config value SIGNATURE ("" when absent)
    IF_TRADE,      \* runtime config value IF_TRADE
    INITIAL_CASH,  \* runtime config value INITIAL_CASH
    pc,            \* "idle" or "running": a decision cycle is in progress
    cycleAppends,  \* records appended so far by the cycle in progress
    lastCall,      \* the last ledger call, when it was add_no_trade_record
    answer,        \* the last query of the file and what it returned
    storage,       \* "ok", or "failing": open() on position.jsonl raises OSError
    storageError,  \* what became of the OSError of the last operation, if any
    holidays,      \* the days in the set US_MARKET_HOLIDAYS of the calendar
    now,           \* get_eastern_now(): the clock of the live service
    jobs,          \* the runs of trading_job: where each one stands
    files,         \* position.jsonl of each enabled model, by signature
    cycles,        \* the decision cycles started so far: <<signature, label>>
    broker         \* the broker's side of the last tool call of the cycle

vars == <<exists, ledger, TODAY_DATE, SIGNATURE, IF_TRADE, INITIAL_CASH,
          pc, cycleAppends, lastCall, answer, storage, storageError,
          holidays,
                   now, jobs, files, cycles, broker>>

\* ------------------------------------------------------------ Python dicts
EmptyDict == [k \in {} |-> 0]

DictGet(d, k, default) == IF k \in DOMAIN d THEN d[k] ELSE default

DictSet(d, k, v) == [x \in (DOMAIN d) \cup {k} |-> IF x = k THEN v ELSE d[x]]

DictPop(d, k) == [x \in (DOMAIN d) \ {k} |-> d[x]]

Max(a, b) == IF a > b THEN a ELSE b

Last(s) == s[Len(s)]

\* ------------------------------------------------------------- date labels
\* datetime.strptime(label, "%Y-%m-%d") raises ValueError ("unconverted data
\* remains") on the hour-bucket form.
ParsesAsDate(label) == label.hour = NoHour

\* datetime.weekday(): Monday = 0 .. Sunday = 6; day 0 is a Friday.
Weekday(d) == (d + 4) % 7

RECURSIVE SkipWeekend(_)
SkipWeekend(d) == IF Weekday(d) >= SaturdayWeekday THEN SkipWeekend(d - 1) ELSE d

\* The day before, weekend or not.
get_yesterday_date_NoWeekendSkip(today_date) ==
    [day |-> today_date.day - 1, hour |-> NoHour]

\* get_yesterday_date, defined where strptime succeeds.
get_yesterday_date(today_date) ==
    [day |-> SkipWeekend(today_date.day - 1), hour |-> NoHour]

\* ------------------------------------------------------------ ledger lines
\* this_action always carries the five keys; price = NoPrice and source = ""
\* stand for a key that the written JSON object does not have.
Action(action, symbol, amount, price, source) ==
    [action |-> action, symbol |-> symbol, amount |-> amount,
     price |-> price, source |-> source]

Record(date, id, this_action, positions) ==
    [date |-> date, id |-> id, this_action |-> this_action,
     positions |-> positions]

\* A line of the file that is not a record: only whitespace ("blank"), text
\* that json.loads rejects ("truncated"), or a JSON value that is not an
\* object, such as null ("scalar").
MalformedLine(kind) == [malformed |-> kind]

MalformedKinds == {"blank", "truncated", "scalar"}

IsMalformed(line) == "malformed" \in DOMAIN line

\* `not line.strip()`.
IsBlank(line) == IsMalformed(line) /\ line.malformed = "blank"

\* The text of a record cut off inside the JSON object: the last line of
\* the file, which has no line terminator.
PartialLine == [malformed |-> "partial"]

IsPartial(line) == IsMalformed(line) /\ line.malformed = "partial"

\* json.loads(line) raises json.JSONDecodeError (also on a blank line).
JsonLoadsRaises(line) ==
    IsMalformed(line) /\ line.malformed \in {"blank", "truncated", "partial"}

\* open(path, "a") and f.write(json.dumps(record) + "\n"): the text goes
\* to the end of the file, so after a last line without terminator it
\* continues that line, and the line is then text that json.loads rejects.
FileAppend(lines, record) ==
    IF lines # <<>> /\ IsPartial(lines[Len(lines)])
    THEN [lines EXCEPT ![Len(lines)] = MalformedLine("truncated")]
    ELSE Append(lines, record)

\* json.loads(line) returns a value without the method get.
IsScalar(line) == IsMalformed(line) /\ line.malformed = "scalar"

\* The body of a scanning loop leaves the line alone: it is blank
\* (`continue`), or json.loads or the use of the value raises inside the
\* try of the loop (`except: pass`, `except Exception: continue`).
Skipped(line) == IsBlank(line) \/ JsonLoadsRaises(line) \/ IsScalar(line)

\* A call of a ledger operation: its name, its date label, whether it raised.
Call(op, date, raised) == [op |-> op, date |-> date, raised |-> raised]

\* Any call other than add_no_trade_record.
OtherCall == Call("", Unset, FALSE)

\* --------------------------------------------------- tool_alpaca_trade.py
\* "Get current action ID": the running maximum of the ids, starting from 0.
RECURSIVE ScanActionId(_, _)
ScanActionId(lines, current_action_id) ==
    IF lines = <<>> THEN current_action_id
    ELSE IF Skipped(Head(lines)) THEN ScanActionId(Tail(lines), current_action_id)
    ELSE ScanActionId(Tail(lines), Max(current_action_id, Head(lines).id))

\* The next id without the increment.
NextActionId_NoIncrement(file_exists, lines) ==
    IF file_exists THEN ScanActionId(lines, 0) ELSE 0

\* The id _record_local_position gives the record it writes.
NextActionId(file_exists, lines) ==
    (IF file_exists THEN ScanActionId(lines, 0) ELSE 0) + 1

\* The file opened in mode "w": the lines already there are lost.
_record_local_position_Truncating(file_exists, lines, today_date, action, symbol, qty, price, new_positions) ==
    <<Record(today_date, NextActionId(file_exists, lines),
             Action(action, symbol, qty, price, "alpaca"), new_positions)>>

\* _record_local_position: the file after the call (opened in append mode).
_record_local_position(file_exists, lines, today_date, action, symbol, qty, price, new_positions) ==
    FileAppend(lines,
               Record(today_date, NextActionId(file_exists, lines),
                      Action(action, symbol, qty, price, "alpaca"),
                      new_positions))

\* The loop of _get_local_positions: the positions of the last line read.
RECURSIVE ScanLastPositions(_, _)
ScanLastPositions(lines, latest_positions) ==
    IF lines = <<>> THEN latest_positions
    ELSE IF Skipped(Head(lines)) THEN ScanLastPositions(Tail(lines), latest_positions)
    ELSE ScanLastPositions(Tail(lines), Head(lines).positions)

_get_local_positions(file_exists, lines, initial_cash) ==
    IF ~file_exists THEN [k \in {"CASH"} |-> initial_cash]
    ELSE ScanLastPositions(lines, [k \in {"CASH"} |-> DefaultCash])

\* ------------------------------------------------------- price_tools.py
\* The pass without the comparison of ids: the last record of the date wins.
RECURSIVE ScanDate_LastLine(_, _, _, _)
ScanDate_LastLine(lines, date, max_id, positions) ==
    IF lines = <<>> THEN [positions |-> positions, id |-> max_id]
    ELSE LET doc == Head(lines) IN
         IF ~Skipped(doc) /\ doc.date = date
         THEN ScanDate_LastLine(Tail(lines), date, doc.id, doc.positions)
         ELSE ScanDate_LastLine(Tail(lines), date, max_id, positions)

\* One pass of get_latest_position over the file: the positions and id of
\* the record dated `date` with the greatest id, from (max_id, positions).
RECURSIVE ScanDate(_, _, _, _)
ScanDate(lines, date, max_id, positions) ==
    IF lines = <<>> THEN [positions |-> positions, id |-> max_id]
    ELSE LET doc == Head(lines) IN
         IF ~Skipped(doc) /\ doc.date = date /\ doc.id > max_id
         THEN ScanDate(Tail(lines), date, doc.id, doc.positions)
         ELSE ScanDate(Tail(lines), date, max_id, positions)

Returned(positions, id) == [raised |-> FALSE, positions |-> positions, id |-> id]

Raised == [raised |-> TRUE, positions |-> EmptyDict, id |-> 0 - 1]

get_latest_position(file_exists, lines, today_date) ==
    IF ~file_exists THEN Returned(EmptyDict, 0 - 1)
    ELSE LET today == ScanDate(lines, today_date, 0 - 1, EmptyDict) IN
         IF today.id >= 0 THEN Returned(today.positions, today.id)
         ELSE IF ~ParsesAsDate(today_date) THEN Raised
         ELSE LET prev == ScanDate(lines, get_yesterday_date(today_date),
                                   0 - 1, EmptyDict)
              IN  Returned(prev.positions, prev.id)

\* The record add_no_trade_record writes when get_latest_position returns.
NoTradeRecord(file_exists, lines, today_date) ==
    LET current == get_latest_position(file_exists, lines, today_date) IN
    Record(today_date, current.id + 1,
           Action("no_trade", "", 0, NoPrice, ""), current.positions)

\* The effect of add_no_trade_record on the file and on the call history.
NoTradeEffect(today_date) ==
    IF storage = "failing" \/ get_latest_position(exists, ledger, today_date).raised
    THEN /\ UNCHANGED <<exists, ledger>>
         /\ lastCall' = Call("add_no_trade_record", today_date, TRUE)
    ELSE /\ exists' = TRUE
         /\ ledger' = FileAppend(ledger,
                                 NoTradeRecord(exists, ledger, today_date))
         /\ lastCall' = Call("add_no_trade_record", today_date, FALSE)

\* The head of the list all_nasdaq_100_symbols.
all_nasdaq_100_symbols == {"NVDA", "MSFT", "AAPL"}

\* What get_today_init_position hands back: a positions dict, or an exception.
Holdings(positions) == [raised |-> FALSE, positions |-> positions]

HoldingsRaised == [raised |-> TRUE, positions |-> EmptyDict]

\* The order of two date strings: a calendar date sorts before the hours of
\* its day and after everything of the days before.
DateStringLess(a, b) == a.day < b.day \/ (a.day = b.day /\ a.hour < b.hour)

\* The sort key (date, id) of list.sort.
SortKeyLess(r, q) ==
    DateStringLess(r.date, q.date) \/ (r.date = q.date /\ r.id < q.id)

\* all_records[0] after the stable sort by (date, id).
EarliestRecord(all_records) ==
    LET i == CHOOSE i \in DOMAIN all_records :
                 \A j \in DOMAIN all_records :
                     /\ ~SortKeyLess(all_records[j], all_records[i])
                     /\ (j < i) => SortKeyLess(all_records[i], all_records[j])
    IN  all_records[i]

\* "initial_record": the first record of the file with id 0, as a sequence
\* of at most one record.
RECURSIVE InitialRecord(_)
InitialRecord(all_records) ==
    IF all_records = <<>> THEN <<>>
    ELSE IF Head(all_records).id = 0 THEN <<Head(all_records)>>
    ELSE InitialRecord(Tail(all_records))

\* The snapshot built from the earliest record when today_date is before it.
SynthesizedPosition(earliest_positions) ==
    LET keys == (DOMAIN earliest_positions) \ {"CASH"}
        stock_symbols == IF keys = {} THEN all_nasdaq_100_symbols ELSE keys
        has_positions ==
            \E sym \in stock_symbols : DictGet(earliest_positions, sym, 0) > 0
        initial_cash == IF has_positions THEN DefaultCash
                        ELSE DictGet(earliest_positions, "CASH", DefaultCash)
    IN  [k \in stock_symbols \cup {"CASH"} |->
            IF k = "CASH" THEN initial_cash ELSE 0]

\* The positions of the initial record when it has any, else those of the
\* earliest record (the empty dict when it has none).
InitialOrEarliest(initial_record, earliest_record) ==
    IF initial_record # <<>> /\ initial_record[1].positions # EmptyDict
    THEN initial_record[1].positions
    ELSE earliest_record.positions

\* What get_today_init_position does once no positions were found for
\* yesterday_date and all_records is not empty.
FromEarliestRecord(all_records, today_date) ==
    LET initial_record == InitialRecord(all_records)
        earliest_record == EarliestRecord(all_records)
        earliest_date == earliest_record.date
    IN  IF ~ParsesAsDate(earliest_date)
        THEN InitialOrEarliest(initial_record, earliest_record)
        ELSE IF today_date.day < earliest_date.day
        THEN IF initial_record # <<>> /\ initial_record[1].positions # EmptyDict
             THEN initial_record[1].positions
             ELSE IF earliest_record.positions # EmptyDict
             THEN SynthesizedPosition(earliest_record.positions)
             ELSE [k \in all_nasdaq_100_symbols \cup {"CASH"} |->
                      IF k = "CASH" THEN DefaultCash ELSE 0]
        ELSE earliest_record.positions

\* The lines that get_today_init_position appends to all_records: those
\* that json.loads accepts, objects or not.
Loaded(line) == ~IsBlank(line) /\ ~JsonLoadsRaises(line)

get_today_init_position(file_exists, lines, today_date) ==
    IF ~file_exists THEN Holdings(EmptyDict)
    ELSE IF ~ParsesAsDate(today_date) THEN HoldingsRaised
    ELSE LET yesterday == ScanDate(lines, get_yesterday_date(today_date),
                                   0 - 1, EmptyDict)
             all_records == SelectSeq(lines, Loaded)
         IN  IF yesterday.positions # EmptyDict THEN Holdings(yesterday.positions)
             ELSE IF all_records = <<>> THEN Holdings(EmptyDict)
             ELSE IF \E i \in DOMAIN all_records : IsScalar(all_records[i])
             THEN HoldingsRaised
             ELSE Holdings(FromEarliestRecord(all_records, today_date))

\* The already-processed check of LiveAgent_Hour.get_trading_dates: the loop
\* over the file, which stops at the first record dated current_hour.
RECURSIVE AlreadyProcessed(_, _)
AlreadyProcessed(lines, current_hour) ==
    IF lines = <<>> THEN [raised |-> FALSE, processed |-> FALSE]
    ELSE LET line == Head(lines) IN
         IF JsonLoadsRaises(line) \/ IsScalar(line)
         THEN [raised |-> TRUE, processed |-> FALSE]
         ELSE IF line.date = current_hour
         THEN [raised |-> FALSE, processed |-> TRUE]
         ELSE AlreadyProcessed(Tail(lines), current_hour)

\* An OSError raised by open() in the operation `op`: whether a broker
\* order of that call had been filled by then, and how the error left the
\* operation ("raised", or the error the operation returned in its place).
StorageError(op, order_filled, surfaced) ==
    [op |-> op, order_filled |-> order_filled, surfaced |-> surfaced]

NoStorageError == StorageError("", FALSE, "")

\* The order as get_order_by_id shows it when the polling of buy_alpaca or
\* sell_alpaca ends: its side, symbol, status ("exception": a call of the
\* client raised before a status was read), filled_qty and filled_avg_price
\* (0 when absent); positions_ok: the call of get_all_positions that follows
\* a fill returned.
Order(side, symbol, status, filled_qty, filled_avg_price, positions_ok) ==
    [side |-> side, symbol |-> symbol, status |-> status,
     filled_qty |-> filled_qty, filled_avg_price |-> filled_avg_price,
     positions_ok |-> positions_ok]

\* No call of the client was made: the tool returned before, or no tool was
\* called.
NoBrokerCall == Order("", "", "", 0, 0, TRUE)

\* The account as sync_positions_from_alpaca reads it: get_account().cash and
\* get_all_positions() ("exception": one of the two calls raised).
Account(status, cash, positions) ==
    [side |-> "sync", symbol |-> "SYNC", status |-> status, cash |-> cash,
     positions |-> positions]

\* int(float(pos.qty)) of a quantity that is not negative: float parses the
\* string, int cuts the fraction off.
IntOfFloat(qty) == qty.whole

\* The filled_qty an order for qty shares can show under a status.
FilledQuantities(qty, status) ==
    IF status = "filled" THEN {qty}
    ELSE IF status = "partially_filled" THEN 1..(qty - 1)
    ELSE {0}

\* No query made yet.
NoAnswer == [op |-> "", date |-> Unset, result |-> Raised]

\* ------------------------------------------------------- the live service
\* The enabled models of the configuration, by signature, in file order.
enabled_models == <<"agent", "peer">>

Signatures == {enabled_models[i] : i \in DOMAIN enabled_models}

\* The runs of trading_job: the one main awaits at start-up and the one
\* the scheduler starts from the cron trigger.
Jobs == {"immediate", "cron"}

\* No trigger time yet.
NoTick == [day |-> 0 - 1, sec |-> 0]

\* A run of trading_job.  pc: "start" (main has not made its start-up check),
\* "idle", "initialize" (awaiting agent.initialize() of the model numbered
\* `model`), "cycle" (awaiting run_with_retry of that model's cycle for
\* `label`), "done"; appends: the records the tool calls of the cycle wrote;
\* tick: the trigger time the scheduler ran last.
Job(job_pc, model, label, appends, tick) ==
    [pc |-> job_pc, model |-> model, label |-> label, appends |-> appends,
     tick |-> tick]

\* No position.jsonl.
NoFile == [exists |-> FALSE, lines |-> <<>>]

\* The service is not running.
ServiceStopped ==
    /\ now = [day |-> 0, sec |-> 0]
    /\ jobs = [j \in Jobs |-> Job("done", 0, Unset, 0, NoTick)]
    /\ files = [sig \in Signatures |-> NoFile]
    /\ cycles = {}

\* ------------------------------------------------------------------ actions
Init ==
    /\ exists = FALSE
    /\ ledger = <<>>
    /\ TODAY_DATE = Unset
    /\ SIGNATURE = ""
    /\ IF_TRADE = FALSE
    /\ INITIAL_CASH \in InitialCashValues
    /\ pc = "idle"
    /\ cycleAppends = 0
    /\ lastCall = OtherCall
    /\ answer = NoAnswer
    /\ storage = "ok"
    /\ storageError = NoStorageError
    /\ holidays = US_MARKET_HOLIDAYS
    /\ ServiceStopped
    /\ broker = NoBrokerCall

\* _init_local_positions(signature, initial_cash): writes the Init record
\* unless the file is there.  TODAY_DATE defaults to the current time.
_init_local_positions ==
    /\ pc = "idle"
    /\ \E initial_cash \in InitialCashValues, current_time \in HourLabels :
         LET today_date == IF TODAY_DATE = Unset THEN current_time
                           ELSE TODAY_DATE IN
         IF exists
         THEN /\ UNCHANGED <<exists, ledger>>
              /\ lastCall' = OtherCall
              /\ storageError' = NoStorageError
         ELSE IF storage = "failing"
         THEN /\ UNCHANGED <<exists, ledger>>
              /\ lastCall' = OtherCall
              /\ storageError' =
                     StorageError("_init_local_positions", FALSE, "raised")
         ELSE /\ exists' = TRUE
              /\ ledger' = <<Record(today_date, 0,
                                    Action("init", "CASH", initial_cash, NoPrice, ""),
                                    [k \in {"CASH"} |-> initial_cash])>>
              /\ lastCall' = OtherCall
              /\ storageError' = NoStorageError
    /\ UNCHANGED <<TODAY_DATE, SIGNATURE, IF_TRADE, INITIAL_CASH, pc,
                   cycleAppends, answer, storage,
                   holidays,
                   now, jobs, files, cycles, broker>>

\* add_no_trade_record(today_date, modelname), called on its own.
add_no_trade_record ==
    /\ pc = "idle"
    /\ Len(ledger) < MaxLedger
    /\ \E today_date \in Labels : NoTradeEffect(today_date)
    /\ storageError' = IF storage = "failing"
                       THEN StorageError("add_no_trade_record", FALSE, "raised")
                       ELSE NoStorageError
    /\ UNCHANGED <<TODAY_DATE, SIGNATURE, IF_TRADE, INITIAL_CASH, pc,
                   cycleAppends, answer, storage,
                   holidays,
                   now, jobs, files, cycles, broker>>

\* run_single_hour(trading_hour) up to the call of run_with_retry: writes the
\* label and the identity into the runtime config and starts the cycle.
run_single_hour ==
    /\ pc = "idle"
    /\ \E trading_hour \in Labels : TODAY_DATE' = trading_hour
    /\ SIGNATURE' = Identity
    /\ pc' = "running"
    /\ cycleAppends' = 0
    /\ storageError' = NoStorageError
    /\ broker' = NoBrokerCall
    /\ UNCHANGED <<exists, ledger, IF_TRADE, INITIAL_CASH, lastCall, answer,
                   storage, holidays,
                   now, jobs, files, cycles>>

\* What a tool call that writes the record leaves behind.
Recorded(lines) ==
    /\ exists' = TRUE
    /\ ledger' = lines
    /\ cycleAppends' = cycleAppends + 1
    /\ lastCall' = OtherCall
    /\ storageError' = NoStorageError

\* What a tool call that returns early (error or pending) leaves behind.
NotRecorded ==
    /\ UNCHANGED <<exists, ledger, cycleAppends, IF_TRADE>>
    /\ lastCall' = OtherCall
    /\ storageError' = NoStorageError

\* What a tool call leaves behind when open() raises in _get_local_positions
\* or _record_local_position: the `except Exception` of the tool turns the
\* OSError into the error dict it returns.
StorageFailed(op, order_filled, error) ==
    /\ UNCHANGED <<exists, ledger, cycleAppends, IF_TRADE>>
    /\ lastCall' = OtherCall
    /\ storageError' = StorageError(op, order_filled, error)

\* A tool call that returns an error or a pending result, with the order it
\* leaves at the broker.
ReturnedEarly(order) ==
    /\ broker' = order
    /\ NotRecorded

\* buy_alpaca(symbol, qty).  client: the Alpaca client is available;
\* outcome: where the order stands when polling ends ("exception": a broker
\* call raised); filled_qty: the shares the broker filled; price: the
\* filled_avg_price (0 when absent); positions_ok: get_all_positions after
\* the fill does not raise.  The agent draws qty from `quantities`.
buy_alpaca_of(quantities) ==
    /\ pc = "running"
    /\ cycleAppends < MaxCycleAppends
    /\ Len(ledger) < MaxLedger
    /\ \E symbol \in Symbols, qty \in quantities :
         IF SIGNATURE = "" \/ qty <= 0 THEN ReturnedEarly(NoBrokerCall)
         ELSE \E client \in BOOLEAN :
         IF ~client THEN ReturnedEarly(NoBrokerCall)
         ELSE \E outcome \in OrderOutcomes :
         IF outcome \notin {"filled", "partially_filled"}
         THEN ReturnedEarly(Order("buy", symbol, outcome, 0, 0, TRUE))
         ELSE \E filled_qty \in FilledQuantities(qty, outcome),
                 price \in FillPrices :
         IF price = 0
         THEN ReturnedEarly(Order("buy", symbol, outcome, filled_qty, 0, TRUE))
         ELSE \E positions_ok \in BOOLEAN :
              /\ broker' = Order("buy", symbol, outcome, filled_qty, price,
                                 positions_ok)
              /\ IF ~positions_ok THEN NotRecorded
                 ELSE IF storage = "failing"
                 THEN StorageFailed("buy_alpaca", TRUE, "Alpaca API error")
                 ELSE
                 LET local_positions ==
                         _get_local_positions(exists, ledger, INITIAL_CASH)
                     total_cost == price * qty
                     p1 == DictSet(local_positions, "CASH",
                                   DictGet(local_positions, "CASH", 0) - total_cost)
                     p2 == DictSet(p1, symbol, DictGet(p1, symbol, 0) + qty)
                 IN  /\ Recorded(_record_local_position(exists, ledger, TODAY_DATE,
                                                  "buy", symbol, qty, price, p2))
                     /\ IF_TRADE' = TRUE
    /\ UNCHANGED <<TODAY_DATE, SIGNATURE, INITIAL_CASH, pc, answer, storage,
                   holidays,
                   now, jobs, files, cycles>>

\* sell_alpaca(symbol, qty).  current_qty: the broker's open position in
\* the symbol (0: none, get_open_position raises).
sell_alpaca_of(quantities) ==
    /\ pc = "running"
    /\ cycleAppends < MaxCycleAppends
    /\ Len(ledger) < MaxLedger
    /\ \E symbol \in Symbols, qty \in quantities :
         IF SIGNATURE = "" \/ qty <= 0 THEN ReturnedEarly(NoBrokerCall)
         ELSE \E client \in BOOLEAN :
         IF ~client THEN ReturnedEarly(NoBrokerCall)
         ELSE \E current_qty \in BrokerQty :
         IF current_qty <= 0 \/ current_qty < qty THEN ReturnedEarly(NoBrokerCall)
         ELSE \E outcome \in OrderOutcomes :
         IF outcome \notin {"filled", "partially_filled"}
         THEN ReturnedEarly(Order("sell", symbol, outcome, 0, 0, TRUE))
         ELSE \E filled_qty \in FilledQuantities(qty, outcome),
                 price \in FillPrices :
         IF price = 0
         THEN ReturnedEarly(Order("sell", symbol, outcome, filled_qty, 0, TRUE))
         ELSE /\ broker' = Order("sell", symbol, outcome, filled_qty, price, TRUE)
              /\ IF storage = "failing"
                 THEN StorageFailed("sell_alpaca", TRUE, "Alpaca API error")
                 ELSE
                 LET local_positions ==
                         _get_local_positions(exists, ledger, INITIAL_CASH)
                     total_proceeds == price * qty
                     p1 == DictSet(local_positions, "CASH",
                                   DictGet(local_positions, "CASH", 0) + total_proceeds)
                     p2 == DictSet(p1, symbol, DictGet(p1, symbol, 0) - qty)
                     p3 == IF DictGet(p2, symbol, 0) <= 0
                           THEN DictPop(p2, symbol) ELSE p2
                 IN  /\ Recorded(_record_local_position(exists, ledger, TODAY_DATE,
                                                  "sell", symbol, qty, price, p3))
                     /\ IF_TRADE' = TRUE
    /\ UNCHANGED <<TODAY_DATE, SIGNATURE, INITIAL_CASH, pc, answer, storage,
                   holidays,
                   now, jobs, files, cycles>>

buy_alpaca == buy_alpaca_of(Quantities)

sell_alpaca == sell_alpaca_of(Quantities)

\* sync_positions_from_alpaca().  cash, positions: the broker's account.
sync_positions_from_alpaca ==
    /\ pc = "running"
    /\ cycleAppends < MaxCycleAppends
    /\ Len(ledger) < MaxLedger
    /\ \E client \in BOOLEAN, broker_ok \in BOOLEAN, cash \in BrokerCash,
          positions \in BrokerPositions :
         /\ broker' = IF SIGNATURE = "" \/ ~client THEN NoBrokerCall
                      ELSE IF broker_ok THEN Account("ok", cash, positions)
                      ELSE Account("exception", 0, [k \in {} |-> Decimal(0, 0)])
         /\ IF SIGNATURE # "" /\ client /\ broker_ok
            THEN IF storage = "failing"
                 THEN StorageFailed("sync_positions_from_alpaca", FALSE,
                                    "Failed to sync positions")
                 ELSE
                 LET new_positions ==
                         [k \in {"CASH"} \cup DOMAIN positions |->
                             IF k = "CASH" THEN cash
                             ELSE IntOfFloat(positions[k])]
                 IN  /\ Recorded(_record_local_position(exists, ledger, TODAY_DATE,
                                                  "sync", "SYNC", 0, 0,
                                                  new_positions))
                     /\ UNCHANGED IF_TRADE
            ELSE NotRecorded
    /\ UNCHANGED <<TODAY_DATE, SIGNATURE, INITIAL_CASH, pc, answer, storage,
                   holidays,
                   now, jobs, files, cycles>>

\* The end of the decision cycle (BaseAgent_Hour.run_with_retry): a cycle
\* in which no trade was recorded records a no-trade; an exception ends the
\* cycle as well (run_single_hour catches it and returns False).
run_with_retry ==
    /\ pc = "running"
    /\ IF IF_TRADE
       THEN /\ IF_TRADE' = FALSE
            /\ UNCHANGED <<exists, ledger, lastCall>>
            /\ storageError' = NoStorageError
       ELSE /\ Len(ledger) < MaxLedger
            /\ NoTradeEffect(TODAY_DATE)
            /\ UNCHANGED IF_TRADE
            /\ storageError' =
                   IF storage = "failing"
                   THEN StorageError("add_no_trade_record", FALSE,
                                     "run_single_hour returned False")
                   ELSE NoStorageError
    /\ cycleAppends' = 0
    /\ pc' = "idle"
    /\ broker' = NoBrokerCall
    /\ UNCHANGED <<TODAY_DATE, SIGNATURE, INITIAL_CASH, answer, storage,
                   holidays,
                   now, jobs, files, cycles>>

Next ==
    \/ _init_local_positions
    \/ add_no_trade_record
    \/ run_single_hour
    \/ buy_alpaca
    \/ sell_alpaca
    \/ sync_positions_from_alpaca
    \/ run_with_retry

Spec == Init /\ [][Next]_vars

\* ------------------------------------------------------------ order sizes
\* Decision cycles whose orders are for two shares.
NextFills ==
    \/ run_single_hour
    \/ buy_alpaca_of(Lots)
    \/ sell_alpaca_of(Lots)
    \/ sync_positions_from_alpaca
    \/ run_with_retry

SpecFills == Init /\ [][NextFills]_vars

\* ------------------------------------------------------- storage failures
\* The file becomes unreadable and unwritable, or usable again.
storage_fault ==
    /\ storage' = IF storage = "ok" THEN "failing" ELSE "ok"
    /\ UNCHANGED <<exists, ledger, TODAY_DATE, SIGNATURE, IF_TRADE,
                   INITIAL_CASH, pc, cycleAppends, lastCall, answer,
                   storageError, holidays,
                   now, jobs, files, cycles, broker>>

NextStorage ==
    \/ Next
    \/ storage_fault

SpecStorage == Init /\ [][NextStorage]_vars

\* ----------------------------------------------------- interrupted writes
\* The process is killed while an append is being written: a part of the
\* text is in the file, the "\n" is not.  The cycle is gone with the process.
killed_mid_write ==
    /\ storage = "ok"
    /\ Len(ledger) < MaxLedger
    /\ (ledger # <<>>) => ~IsPartial(Last(ledger))
    /\ exists' = TRUE
    /\ ledger' = Append(ledger, PartialLine)
    /\ pc' = "idle"
    /\ cycleAppends' = 0
    /\ lastCall' = OtherCall
    /\ storageError' = NoStorageError
    /\ UNCHANGED <<TODAY_DATE, SIGNATURE, IF_TRADE, INITIAL_CASH, answer,
                   storage, holidays,
                   now, jobs, files, cycles, broker>>

NextPartial ==
    \/ Next
    \/ killed_mid_write

SpecPartial == Init /\ [][NextPartial]_vars

\* ------------------------------------------------------ a small account
\* The cash of the broker account that run_trading_decision writes into
\* INITIAL_CASH, for an account holding less than the price of one share.
LowCash == 50

InitLowCash ==
    /\ exists = FALSE
    /\ ledger = <<>>
    /\ TODAY_DATE = Unset
    /\ SIGNATURE = ""
    /\ IF_TRADE = FALSE
    /\ INITIAL_CASH = LowCash
    /\ pc = "idle"
    /\ cycleAppends = 0
    /\ lastCall = OtherCall
    /\ answer = NoAnswer
    /\ storage = "ok"
    /\ storageError = NoStorageError
    /\ holidays = US_MARKET_HOLIDAYS
    /\ ServiceStopped
    /\ broker = NoBrokerCall

SpecLowCash == InitLowCash /\ [][Next]_vars

\* ------------------------------------------------ queries on any ledger file
\* get_latest_position is a function of the file alone.  It is applied to
\* every file of at most MaxScan lines whose records carry one of three
\* labels (a Friday, the Monday after it, an hour of that Friday), an id in
\* 0..MaxScan-1 and one of two positions dicts, no id twice under one label.
ScanLabels == {[day |-> 0, hour |-> NoHour], [day |-> 3, hour |-> NoHour],
               [day |-> 0, hour |-> 10]}

ScanPositions == {[k \in {"CASH"} |-> DefaultCash],
                  [k \in {"CASH", "AAPL"} |-> IF k = "CASH" THEN 9900 ELSE 1]}

ScanRecords ==
    {Record(d, i, Action("no_trade", "", 0, NoPrice, ""), p) :
        d \in ScanLabels, i \in 0..(MaxScan - 1), p \in ScanPositions}

UniqueIdsPerDate(lines) ==
    \A i, j \in DOMAIN lines :
        (i # j /\ lines[i].date = lines[j].date) => lines[i].id # lines[j].id

ScanFiles ==
    {f \in UNION {[1..n -> ScanRecords] : n \in 0..MaxScan} : UniqueIdsPerDate(f)}

InitQuery ==
    /\ ledger \in ScanFiles
    /\ exists \in BOOLEAN
    /\ (ledger # <<>>) => exists
    /\ TODAY_DATE = Unset
    /\ SIGNATURE = ""
    /\ IF_TRADE = FALSE
    /\ INITIAL_CASH = DefaultCash
    /\ pc = "idle"
    /\ cycleAppends = 0
    /\ lastCall = OtherCall
    /\ answer = NoAnswer
    /\ storage = "ok"
    /\ storageError = NoStorageError
    /\ holidays = US_MARKET_HOLIDAYS
    /\ ServiceStopped
    /\ broker = NoBrokerCall

\* get_latest_position(today_date, modelname), called on the file.
QueryLatestPosition ==
    /\ \E today_date \in ScanLabels :
         answer' = [op |-> "get_latest_position", date |-> today_date,
                    result |-> get_latest_position(exists, ledger, today_date)]
    /\ UNCHANGED <<exists, ledger, TODAY_DATE, SIGNATURE, IF_TRADE,
                   INITIAL_CASH, pc, cycleAppends, lastCall, storage,
                   storageError, holidays,
                   now, jobs, files, cycles, broker>>

NextQuery == QueryLatestPosition

SpecQuery == InitQuery /\ [][NextQuery]_vars

\* ---------------------------------------------------- trading_calendar.py
\* An instant dt of US Eastern time is [day, sec]: the calendar day, counted
\* like the day of a label, and the second of that day (dt.time() without
\* its microseconds).  MARKET_OPEN is 09:30:00 and MARKET_CLOSE is 16:00:00
\* as seconds of the day.

CalendarDays == (0 - MaxCalendarDay)..MaxCalendarDay

\* The seconds of the day looked at: of every hour, its first two seconds,
\* the seconds around the half hour, the 45th minute and the last second.
ClockOffsets == {0, 1, 1799, 1800, 2700, 3599}

ClockTimes == {h * 3600 + o : h \in 0..23, o \in ClockOffsets}

Instants == {[day |-> d, sec |-> t] : d \in CalendarDays, t \in ClockTimes}

\* dt.hour
HourOf(dt) == dt.sec \div 3600

\* The value None.
None == Unset

is_weekend(dt) == Weekday(dt.day) >= SaturdayWeekday

is_us_holiday(dt) == dt.day \in holidays

\* Weekends only: the holiday test left out.
is_trading_day_NoHolidays(dt) == ~is_weekend(dt)

is_trading_day(dt) ==
    IF is_weekend(dt) THEN FALSE
    ELSE IF is_us_holiday(dt) THEN FALSE
    ELSE TRUE

\* The close taken as exclusive.
is_market_hours_CloseExclusive(dt) ==
    IF ~is_trading_day(dt) THEN FALSE
    ELSE MARKET_OPEN <= dt.sec /\ dt.sec < MARKET_CLOSE

is_market_hours(dt) ==
    IF ~is_trading_day(dt) THEN FALSE
    ELSE MARKET_OPEN <= dt.sec /\ dt.sec <= MARKET_CLOSE

\* Without the test of the open hour.
get_current_trading_hour_WithOpenHour(dt) ==
    IF ~is_market_hours(dt) THEN None
    ELSE [day |-> dt.day, hour |-> HourOf(dt)]

get_current_trading_hour(dt) ==
    IF ~is_market_hours(dt) THEN None
    ELSE IF HourOf(dt) = 9 THEN None
    ELSE [day |-> dt.day, hour |-> HourOf(dt)]

\* max_days of get_next_trading_time.
max_days == 10

\* The loop of get_next_trading_time from check_date with `remaining` rounds
\* left: the first trading day met and the number of dates looked at, or no
\* day (found = FALSE) when the rounds are used up.
RECURSIVE FindTradingDay(_, _, _)
FindTradingDay(check_date, remaining, inspected) ==
    IF remaining = 0
    THEN [found |-> FALSE, day |-> check_date, inspected |-> inspected]
    ELSE IF is_trading_day([day |-> check_date, sec |-> MARKET_OPEN])
    THEN [found |-> TRUE, day |-> check_date, inspected |-> inspected + 1]
    ELSE FindTradingDay(check_date + 1, remaining - 1, inspected + 1)

\* What get_next_trading_time returns: the instant, its label formatted by
\* "%Y-%m-%d %H:00:00", and the number of dates the loop looked at.
NextTime(day, sec, inspected) ==
    [dt |-> [day |-> day, sec |-> sec],
     label |-> [day |-> day, hour |-> sec \div 3600],
     inspected |-> inspected]

\* The search started from today whatever the time of day.
get_next_trading_time_FromToday(dt) ==
    IF is_market_hours(dt) /\ HourOf(dt) < 16
    THEN NextTime(dt.day, (IF HourOf(dt) = 9 THEN 10 ELSE HourOf(dt) + 1) * 3600, 0)
    ELSE LET search == FindTradingDay(dt.day, max_days, 0)
         IN  IF search.found THEN NextTime(search.day, 10 * 3600, search.inspected)
             ELSE NextTime(dt.day + 7, dt.sec, search.inspected)

\* The next hour taken as dt.hour + 1 without setting minute and second
\* to zero.
get_next_trading_time_KeepMinutes(dt) ==
    IF is_market_hours(dt) /\ HourOf(dt) < 16
    THEN NextTime(dt.day, dt.sec + 3600, 0)
    ELSE LET check_date == IF dt.sec >= MARKET_CLOSE \/ ~is_trading_day(dt)
                           THEN dt.day + 1 ELSE dt.day
             search == FindTradingDay(check_date, max_days, 0)
         IN  IF search.found THEN NextTime(search.day, 10 * 3600, search.inspected)
             ELSE NextTime(dt.day + 7, dt.sec, search.inspected)

\* The loop given one round more than max_days.
get_next_trading_time_ElevenDays(dt) ==
    IF is_market_hours(dt) /\ HourOf(dt) < 16
    THEN NextTime(dt.day, (IF HourOf(dt) = 9 THEN 10 ELSE HourOf(dt) + 1) * 3600, 0)
    ELSE LET check_date == IF dt.sec >= MARKET_CLOSE \/ ~is_trading_day(dt)
                           THEN dt.day + 1 ELSE dt.day
             search == FindTradingDay(check_date, max_days + 1, 0)
         IN  IF search.found THEN NextTime(search.day, 10 * 3600, search.inspected)
             ELSE NextTime(dt.day + 7, dt.sec, search.inspected)

\* In session the top of the current hour in place of the next one.
get_next_trading_time_ThisHour(dt) ==
    IF is_market_hours(dt) /\ HourOf(dt) < 16
    THEN NextTime(dt.day, (IF HourOf(dt) = 9 THEN 10 ELSE HourOf(dt)) * 3600, 0)
    ELSE LET check_date == IF dt.sec >= MARKET_CLOSE \/ ~is_trading_day(dt)
                           THEN dt.day + 1 ELSE dt.day
             search == FindTradingDay(check_date, max_days, 0)
         IN  IF search.found THEN NextTime(search.day, 10 * 3600, search.inspected)
             ELSE NextTime(dt.day + 7, dt.sec, search.inspected)

get_next_trading_time(dt) ==
    IF is_market_hours(dt) /\ HourOf(dt) < 16
    THEN NextTime(dt.day, (IF HourOf(dt) = 9 THEN 10 ELSE HourOf(dt) + 1) * 3600, 0)
    ELSE LET check_date == IF dt.sec >= MARKET_CLOSE \/ ~is_trading_day(dt)
                           THEN dt.day + 1 ELSE dt.day
             search == FindTradingDay(check_date, max_days, 0)
         IN  IF search.found THEN NextTime(search.day, 10 * 3600, search.inspected)
             ELSE NextTime(dt.day + 7, dt.sec, search.inspected)

\* The list [10, 11, 12, 13, 14, 15, 16] of get_trading_hours_today.
TradingHoursList == <<10, 11, 12, 13, 14, 15, 16>>

\* The list of the hours 10 to 15.
get_trading_hours_today_NoClose(dt) ==
    IF ~is_trading_day(dt) THEN <<>>
    ELSE [i \in 1..6 |-> [day |-> dt.day, hour |-> TradingHoursList[i]]]

get_trading_hours_today(dt) ==
    IF ~is_trading_day(dt) THEN <<>>
    ELSE [i \in DOMAIN TradingHoursList |->
             [day |-> dt.day, hour |-> TradingHoursList[i]]]

\* The holiday set shipped, and the same with every weekday from 2024-03-04
\* to 2024-03-15 added: sixteen days in a row without trading.
LongClosure == {3, 4, 5, 6, 7, 10, 11, 12, 13, 14}

HolidaySets == {US_MARKET_HOLIDAYS, US_MARKET_HOLIDAYS \cup LongClosure}

\* A call of a function of the calendar on the instant dt.
CalendarAnswer(op, dt, result) ==
    [op |-> op, date |-> Unset, dt |-> dt, result |-> result]

\* trading_job reads the clock once (now) and hands the same instant to the
\* functions of the calendar: the first call fixes it.
Now == IF answer.op = "" THEN Instants ELSE {answer.dt}

CalendarFrame ==
    UNCHANGED <<exists, ledger, TODAY_DATE, SIGNATURE, IF_TRADE, INITIAL_CASH,
                pc, cycleAppends, lastCall, storage, storageError,
                holidays,
                   now, jobs, files, cycles, broker>>

QueryIsTradingDay ==
    /\ \E dt \in Now :
         answer' = CalendarAnswer("is_trading_day", dt,
                                  [raised |-> FALSE, value |-> is_trading_day(dt)])
    /\ CalendarFrame

QueryIsMarketHours ==
    /\ \E dt \in Now :
         answer' = CalendarAnswer("is_market_hours", dt,
                                  [raised |-> FALSE, value |-> is_market_hours(dt)])
    /\ CalendarFrame

QueryCurrentTradingHour ==
    /\ \E dt \in Now :
         answer' = CalendarAnswer("get_current_trading_hour", dt,
                                  [raised |-> FALSE,
                                   label |-> get_current_trading_hour(dt)])
    /\ CalendarFrame

QueryNextTradingTime ==
    /\ \E dt \in Now :
         answer' = CalendarAnswer("get_next_trading_time", dt,
                                  [raised |-> FALSE,
                                   next |-> get_next_trading_time(dt)])
    /\ CalendarFrame

QueryTradingHoursToday ==
    /\ \E dt \in Now :
         answer' = CalendarAnswer("get_trading_hours_today", dt,
                                  [raised |-> FALSE,
                                   hours |-> get_trading_hours_today(dt)])
    /\ CalendarFrame

InitCalendar ==
    /\ exists = FALSE
    /\ ledger = <<>>
    /\ TODAY_DATE = Unset
    /\ SIGNATURE = ""
    /\ IF_TRADE = FALSE
    /\ INITIAL_CASH = DefaultCash
    /\ pc = "idle"
    /\ cycleAppends = 0
    /\ lastCall = OtherCall
    /\ answer = NoAnswer
    /\ storage = "ok"
    /\ storageError = NoStorageError
    /\ holidays \in HolidaySets
    /\ ServiceStopped
    /\ broker = NoBrokerCall

NextCalendar ==
    \/ QueryIsTradingDay
    \/ QueryIsMarketHours
    \/ QueryCurrentTradingHour
    \/ QueryNextTradingTime
    \/ QueryTradingHoursToday

SpecCalendar == InitCalendar /\ [][NextCalendar]_vars

\* ------------------------------------------------------ live trading runs
\* The clock readings of the service: Friday 2024-03-01 at 09:45 (the open
\* hour), 10:03, 10:05, 11:05 and 16:05, and Saturday at 10:05.
LiveInstants ==
    {[day |-> 0, sec |-> 9 * 3600 + 45 * 60],
     [day |-> 0, sec |-> 10 * 3600 + 3 * 60],
     [day |-> 0, sec |-> 10 * 3600 + 5 * 60],
     [day |-> 0, sec |-> 11 * 3600 + 5 * 60],
     [day |-> 0, sec |-> 16 * 3600 + 5 * 60],
     [day |-> 1, sec |-> 10 * 3600 + 5 * 60]}

After(t) ==
    {u \in LiveInstants : u.day > t.day \/ (u.day = t.day /\ u.sec > t.sec)}

\* CronTrigger(hour="10,11,12,13,14,15,16", minute=5).
CronTrigger(dt) == HourOf(dt) \in 10..16 /\ dt.sec % 3600 = 5 * 60

\* Where a run of trading_job stands once it has returned.
Returned_pc(j) == IF j = "immediate" THEN "done" ELSE "idle"

\* run_trading_decision from the model numbered i on, up to the first
\* suspension: past the last model the loop is over and trading_job
\* returns; otherwise the runtime configuration is written for the model
\* and the run awaits agent.initialize().
run_trading_decision(j, i, if_trade, tick) ==
    IF i > Len(enabled_models)
    THEN /\ jobs' = [jobs EXCEPT ![j] =
                        Job(Returned_pc(j), 0, Unset, 0, tick)]
         /\ IF_TRADE' = if_trade
         /\ UNCHANGED <<SIGNATURE, INITIAL_CASH>>
    ELSE /\ SIGNATURE' = enabled_models[i]
         /\ IF_TRADE' = FALSE
         /\ INITIAL_CASH' \in InitialCashValues
         /\ jobs' = [jobs EXCEPT ![j] =
                        Job("initialize", i, Unset, 0, tick)]

\* The gate of trading_job: TRUE when none of its three early returns is
\* taken.  fetch_live_data, which follows, has no suspension point and
\* writes no ledger; run_trading_decision comes next.
trading_job(j) ==
    IF ~is_trading_day(now) THEN FALSE
    ELSE IF ~is_market_hours(now) THEN FALSE
    ELSE get_current_trading_hour(now) # None

\* What the state components a run does not touch keep.
LiveFrame ==
    UNCHANGED <<exists, ledger, pc, cycleAppends, lastCall, answer, storage,
                storageError, holidays, broker>>

\* main after scheduler.start(): the start-up check, and trading_job awaited
\* directly when the instant has a label.
main ==
    /\ jobs["immediate"].pc = "start"
    /\ IF trading_job("immediate")
       THEN run_trading_decision("immediate", 1, IF_TRADE, NoTick)
       ELSE /\ jobs' = [jobs EXCEPT !["immediate"] =
                           Job("done", 0, Unset, 0, NoTick)]
            /\ UNCHANGED <<SIGNATURE, IF_TRADE, INITIAL_CASH>>
    /\ UNCHANGED <<TODAY_DATE, now, files, cycles>>
    /\ LiveFrame

\* The scheduler runs trading_job at a trigger time, once, and not while
\* the run it started before is still going.  It gets the event loop only
\* when main suspends, which is after the start-up check.
cron_job ==
    /\ jobs["immediate"].pc # "start"
    /\ CronTrigger(now)
    /\ jobs["cron"].pc = "idle"
    /\ jobs["cron"].tick # now
    /\ IF trading_job("cron")
       THEN run_trading_decision("cron", 1, IF_TRADE, now)
       ELSE /\ jobs' = [jobs EXCEPT !["cron"] = Job("idle", 0, Unset, 0, now)]
            /\ UNCHANGED <<SIGNATURE, IF_TRADE, INITIAL_CASH>>
    /\ UNCHANGED <<TODAY_DATE, now, files, cycles>>
    /\ LiveFrame

\* agent.run_live() of the model the run has initialized: the gate of
\* get_trading_dates, the already-processed check, and run_single_hour up
\* to the call of run_with_retry.  With no cycle to run, or when the check
\* raises (run_trading_decision catches it), the loop goes to the next model.
run_live(j) ==
    /\ jobs[j].pc = "initialize"
    /\ LET signature == enabled_models[jobs[j].model]
           file == files[signature]
           current_hour == get_current_trading_hour(now)
           processed == AlreadyProcessed(file.lines, current_hour)
       IN  IF \/ ~is_trading_day(now)
              \/ ~is_market_hours(now)
              \/ current_hour = None
              \/ (file.exists /\ (processed.raised \/ processed.processed))
           THEN /\ run_trading_decision(j, jobs[j].model + 1, IF_TRADE, jobs[j].tick)
                /\ UNCHANGED <<TODAY_DATE, cycles>>
           ELSE /\ TODAY_DATE' = current_hour
                /\ SIGNATURE' = signature
                /\ jobs' = [jobs EXCEPT ![j] =
                               Job("cycle", jobs[j].model, current_hour, 0,
                                   jobs[j].tick)]
                /\ cycles' = cycles \cup {<<signature, current_hour>>}
                /\ UNCHANGED <<IF_TRADE, INITIAL_CASH>>
    /\ UNCHANGED <<now, files>>
    /\ LiveFrame

\* The snapshot buy_alpaca records after a fill.
BuyPositions(local_positions, symbol, qty, price) ==
    LET p1 == DictSet(local_positions, "CASH",
                      DictGet(local_positions, "CASH", 0) - price * qty)
    IN  DictSet(p1, symbol, DictGet(p1, symbol, 0) + qty)

\* The snapshot sell_alpaca records after a fill.
SellPositions(local_positions, symbol, qty, price) ==
    LET p1 == DictSet(local_positions, "CASH",
                      DictGet(local_positions, "CASH", 0) + price * qty)
        p2 == DictSet(p1, symbol, DictGet(p1, symbol, 0) - qty)
    IN  IF DictGet(p2, symbol, 0) <= 0 THEN DictPop(p2, symbol) ELSE p2

\* The snapshot sync_positions_from_alpaca records.
SyncPositions(cash, positions) ==
    [k \in {"CASH"} \cup DOMAIN positions |->
        IF k = "CASH" THEN cash ELSE positions[k]]

LiveTools == {"buy", "sell", "sync"}

\* The record a tool call of the agent writes when the broker has done its
\* part: signature and today_date are what the runtime configuration holds
\* when the tool is called.
ToolRecorded(tool, signature, today_date, initial_cash) ==
    LET file == files[signature]
        local_positions ==
            _get_local_positions(file.exists, file.lines, initial_cash)
        symbol == CHOOSE sym \in Symbols : TRUE
        price == CHOOSE fill \in FillPrices : fill # 0
        cash == CHOOSE c \in BrokerCash : TRUE
    IN  IF tool = "buy"
        THEN _record_local_position(file.exists, file.lines, today_date, "buy",
                 symbol, 1, price, BuyPositions(local_positions, symbol, 1, price))
        ELSE IF tool = "sell"
        THEN _record_local_position(file.exists, file.lines, today_date, "sell",
                 symbol, 1, price, SellPositions(local_positions, symbol, 1, price))
        ELSE _record_local_position(file.exists, file.lines, today_date, "sync",
                 "SYNC", 0, 0, SyncPositions(cash, EmptyDict))

\* A tool call (buy_alpaca, sell_alpaca, sync_positions_from_alpaca) made by
\* the agent of a running cycle.  recorded: the call gets as far as its
\* record (credentials, order filled, broker reachable).
tool_call(j) ==
    /\ jobs[j].pc = "cycle"
    /\ jobs[j].appends < MaxLiveAppends
    /\ SIGNATURE # ""
    /\ Len(files[SIGNATURE].lines) < MaxLiveLedger
    /\ \E tool \in LiveTools, recorded \in BOOLEAN :
         IF recorded
         THEN /\ files' = [files EXCEPT ![SIGNATURE] =
                              [exists |-> TRUE,
                               lines |-> ToolRecorded(tool, SIGNATURE,
                                             TODAY_DATE, INITIAL_CASH)]]
              /\ IF_TRADE' = IF tool = "sync" THEN IF_TRADE ELSE TRUE
              /\ jobs' = [jobs EXCEPT ![j].appends = @ + 1]
         ELSE UNCHANGED <<files, IF_TRADE, jobs>>
    /\ UNCHANGED <<TODAY_DATE, SIGNATURE, INITIAL_CASH, now, cycles>>
    /\ LiveFrame

\* The end of a cycle (BaseAgent_Hour.run_with_retry returns or raises into
\* run_single_hour): IF_TRADE is reset, or the no-trade is recorded for the
\* agent's own signature and the label of its cycle; then the loop of
\* run_trading_decision goes on with the next model.
end_of_cycle(j) ==
    /\ jobs[j].pc = "cycle"
    /\ LET signature == enabled_models[jobs[j].model]
           file == files[signature]
           current == get_latest_position(file.exists, file.lines, jobs[j].label)
       IN  /\ IF_TRADE \/ Len(file.lines) < MaxLiveLedger
           /\ IF IF_TRADE \/ current.raised
              THEN UNCHANGED files
              ELSE files' = [files EXCEPT ![signature] =
                               [exists |-> TRUE,
                                lines |-> FileAppend(file.lines,
                                             NoTradeRecord(file.exists, file.lines,
                                                           jobs[j].label))]]
    /\ run_trading_decision(j, jobs[j].model + 1, FALSE, jobs[j].tick)
    /\ UNCHANGED <<TODAY_DATE, now, cycles>>
    /\ LiveFrame

\* Time passes while the service runs.
clock ==
    /\ jobs["immediate"].pc # "start"
    /\ now' \in After(now)
    /\ UNCHANGED <<TODAY_DATE, SIGNATURE, IF_TRADE, INITIAL_CASH, jobs, files,
                   cycles>>
    /\ LiveFrame

\* The ledger an earlier run of the service left: one buy, recorded in the
\* cycle of Thursday 2024-02-29 15:00.
EarlierFile ==
    [exists |-> TRUE,
     lines |-> <<Record([day |-> 0 - 1, hour |-> 15], 1,
                        Action("buy", "AAPL", 1, 100, "alpaca"),
                        [k \in {"AAPL", "CASH"} |->
                            IF k = "CASH" THEN DefaultCash - 100 ELSE 1])>>]

\* The service is started at any of the clock readings, with no ledger yet
\* or with the ledgers of an earlier run.  The scheduler computes its first trigger time after the start, so a
\* trigger time equal to the start has passed.
InitLive ==
    /\ exists = FALSE
    /\ ledger = <<>>
    /\ TODAY_DATE = Unset
    /\ SIGNATURE = ""
    /\ IF_TRADE = FALSE
    /\ INITIAL_CASH = DefaultCash
    /\ pc = "idle"
    /\ cycleAppends = 0
    /\ lastCall = OtherCall
    /\ answer = NoAnswer
    /\ storage = "ok"
    /\ storageError = NoStorageError
    /\ holidays = US_MARKET_HOLIDAYS
    /\ now \in LiveInstants
    /\ jobs = [j \in Jobs |->
                  IF j = "immediate" THEN Job("start", 0, Unset, 0, NoTick)
                  ELSE Job("idle", 0, Unset, 0, now)]
    /\ files \in {[sig \in Signatures |-> f] : f \in {NoFile, EarlierFile}}
    /\ broker = NoBrokerCall
    /\ cycles = {}

NextLive ==
    \/ main
    \/ cron_job
    \/ \E j \in Jobs : run_live(j)
    \/ \E j \in Jobs : tool_call(j)
    \/ \E j \in Jobs : end_of_cycle(j)
    \/ clock

SpecLive == InitLive /\ [][NextLive]_vars

\* ------------------------------------------ holdings queries on any ledger
\* get_today_init_position is a function of the file and of today_date.  It
\* is applied to every file of at most MaxHoldings records, for the Friday,
\* the Monday and the Tuesday after it, and an hour of that Monday.
HoldingsDates == {[day |-> 0, hour |-> NoHour], [day |-> 3, hour |-> NoHour],
                  [day |-> 4, hour |-> NoHour], [day |-> 3, hour |-> 10]}

HoldingsPositions ==
    {EmptyDict,
     [k \in {"CASH"} |-> 9900],
     [k \in {"CASH", "AAPL"} |-> IF k = "CASH" THEN 9900 ELSE 1],
     [k \in {"CASH", "AAPL"} |-> IF k = "CASH" THEN 9800 ELSE 0]}

HoldingsRecords ==
    {Record(d, i, Action("no_trade", "", 0, NoPrice, ""), p) :
        d \in ScanLabels, i \in 0..MaxHoldings, p \in HoldingsPositions}

HoldingsFiles ==
    {f \in UNION {[1..n -> HoldingsRecords] : n \in 0..MaxHoldings} :
        UniqueIdsPerDate(f)}

InitHoldings ==
    /\ ledger \in HoldingsFiles
    /\ exists \in BOOLEAN
    /\ (ledger # <<>>) => exists
    /\ TODAY_DATE = Unset
    /\ SIGNATURE = ""
    /\ IF_TRADE = FALSE
    /\ INITIAL_CASH = DefaultCash
    /\ pc = "idle"
    /\ cycleAppends = 0
    /\ lastCall = OtherCall
    /\ answer = NoAnswer
    /\ storage = "ok"
    /\ storageError = NoStorageError
    /\ holidays = US_MARKET_HOLIDAYS
    /\ ServiceStopped
    /\ broker = NoBrokerCall

\* get_today_init_position(today_date, modelname), called on the file.
QueryTodayInitPosition ==
    /\ \E today_date \in HoldingsDates :
         answer' = [op |-> "get_today_init_position", date |-> today_date,
                    result |-> get_today_init_position(exists, ledger, today_date)]
    /\ UNCHANGED <<exists, ledger, TODAY_DATE, SIGNATURE, IF_TRADE,
                   INITIAL_CASH, pc, cycleAppends, lastCall, storage,
                   storageError, holidays,
                   now, jobs, files, cycles, broker>>

NextHoldings ==
    \/ QueryTodayInitPosition
    \/ QueryLatestPosition

SpecHoldings == InitHoldings /\ [][NextHoldings]_vars

\* ------------------------------------------------ scans of a damaged ledger
\* The five scans of the file, applied to every file of HoldingsFiles with
\* at most one malformed line put in at any place.
InsertAt(lines, i, line) ==
    SubSeq(lines, 1, i) \o <<line>> \o SubSeq(lines, i + 1, Len(lines))

MalformedFiles ==
    HoldingsFiles \cup
    {InsertAt(f, i, MalformedLine(kind)) :
        <<f, i, kind>> \in {t \in HoldingsFiles \X (0..MaxHoldings) \X MalformedKinds :
                              t[2] <= Len(t[1])}}

InitMalformed ==
    /\ ledger \in MalformedFiles
    /\ exists \in BOOLEAN
    /\ (ledger # <<>>) => exists
    /\ TODAY_DATE = Unset
    /\ SIGNATURE = ""
    /\ IF_TRADE = FALSE
    /\ INITIAL_CASH = DefaultCash
    /\ pc = "idle"
    /\ cycleAppends = 0
    /\ lastCall = OtherCall
    /\ answer = NoAnswer
    /\ storage = "ok"
    /\ storageError = NoStorageError
    /\ holidays = US_MARKET_HOLIDAYS
    /\ ServiceStopped
    /\ broker = NoBrokerCall

\* What each scan hands back, as a function of the file.
NextIdResult(file_exists, lines) ==
    [raised |-> FALSE, id |-> NextActionId(file_exists, lines)]

LocalPositionsResult(file_exists, lines, initial_cash) ==
    Holdings(_get_local_positions(file_exists, lines, initial_cash))

AlreadyProcessedResult(file_exists, lines, current_hour) ==
    IF file_exists THEN AlreadyProcessed(lines, current_hour)
    ELSE [raised |-> FALSE, processed |-> FALSE]

\* "Get current action ID" of _record_local_position, on the file.
QueryNextActionId ==
    /\ answer' = [op |-> "_record_local_position", date |-> Unset,
                  result |-> NextIdResult(exists, ledger)]
    /\ UNCHANGED <<exists, ledger, TODAY_DATE, SIGNATURE, IF_TRADE,
                   INITIAL_CASH, pc, cycleAppends, lastCall, storage,
                   storageError, holidays,
                   now, jobs, files, cycles, broker>>

\* _get_local_positions(signature), on the file.
QueryLocalPositions ==
    /\ answer' = [op |-> "_get_local_positions", date |-> Unset,
                  result |-> LocalPositionsResult(exists, ledger, INITIAL_CASH)]
    /\ UNCHANGED <<exists, ledger, TODAY_DATE, SIGNATURE, IF_TRADE,
                   INITIAL_CASH, pc, cycleAppends, lastCall, storage,
                   storageError, holidays,
                   now, jobs, files, cycles, broker>>

\* The already-processed check of get_trading_dates, on the file.
QueryAlreadyProcessed ==
    /\ \E current_hour \in HourLabels :
         answer' = [op |-> "get_trading_dates", date |-> current_hour,
                    result |-> AlreadyProcessedResult(exists, ledger, current_hour)]
    /\ UNCHANGED <<exists, ledger, TODAY_DATE, SIGNATURE, IF_TRADE,
                   INITIAL_CASH, pc, cycleAppends, lastCall, storage,
                   storageError, holidays,
                   now, jobs, files, cycles, broker>>

NextMalformed ==
    \/ QueryLatestPosition
    \/ QueryTodayInitPosition
    \/ QueryNextActionId
    \/ QueryLocalPositions
    \/ QueryAlreadyProcessed

SpecMalformed == InitMalformed /\ [][NextMalformed]_vars

\* ------------------------------------------------------------------ claims
Ids(lines) == {lines[i].id : i \in DOMAIN lines}

\* The greatest id of a file that has a record.
MaxIdOf(lines) == CHOOSE m \in Ids(lines) : \A n \in Ids(lines) : n <= m

HasRecord(lines, date) == \E i \in DOMAIN lines : lines[i].date = date

\* The record dated `date` with the greatest id.
LatestOf(lines, date) ==
    LET dated == {lines[i] : i \in {j \in DOMAIN lines : lines[j].date = date}}
    IN  CHOOSE r \in dated : \A q \in dated : q.id <= r.id

\* The latest Monday-to-Friday day strictly before day d.
PrecedingWeekday(d) ==
    CHOOSE p \in (d - 7)..(d - 1) :
        /\ (p + 4) % 7 < 5
        /\ \A q \in (p + 1)..(d - 1) : (q + 4) % 7 >= 5

AppendsOne == Len(ledger') = Len(ledger) + 1

\* C1: every append to a ledger that has records writes the id 1 + the
\* greatest id present anywhere in the ledger just before the append,
\* whatever the date labels.
C1_MonotonicId ==
    [][(ledger # <<>> /\ AppendsOne)
          => Last(ledger').id = 1 + MaxIdOf(ledger)]_vars

\* C2: ids are non-negative and strictly increasing in file order, so the
\* last line of the file is the record with the highest id.
C2_IdsIncreaseInFileOrder ==
    \A i, j \in DOMAIN ledger :
        /\ ledger[i].id >= 0
        /\ (i < j) => ledger[i].id < ledger[j].id

\* C3: no two records that carry the same date label have the same id.
C3_UniqueIdsPerDate == UniqueIdsPerDate(ledger)

\* Two records of one date, and a record of another date that repeats the
\* id of one of them.
C3_Witness ==
    \E i, j, k \in DOMAIN ledger :
        /\ i # j
        /\ ledger[i].date = ledger[j].date
        /\ ledger[k].date # ledger[i].date
        /\ ledger[k].id = ledger[i].id

\* C4: append-only: every step leaves the file as it is or adds exactly one
\* line after the lines already there, which stay as they were.
C4_AppendOnly ==
    [][\/ ledger' = ledger
       \/ /\ AppendsOne
          /\ SubSeq(ledger', 1, Len(ledger)) = ledger]_vars

\* A file written by init, then a trade, then a no-trade.
C4_Witness ==
    /\ Len(ledger) >= 3
    /\ ledger[1].this_action.action = "init"
    /\ ledger[2].this_action.action \in {"buy", "sell", "sync"}
    /\ ledger[3].this_action.action = "no_trade"

\* C5: the first record of a ledger has id 0 and action init, with
\* positions that hold the starting cash and nothing else.
C5_FirstRecordIsInit ==
    (ledger # <<>>) =>
        /\ ledger[1].id = 0
        /\ ledger[1].this_action.action = "init"
        /\ ledger[1].positions = [k \in {"CASH"} |-> ledger[1].this_action.amount]

\* C6: a decision cycle that ends has appended exactly one record.
C6_OneRecordPerCycle ==
    [][(pc = "running" /\ pc' = "idle")
          => cycleAppends + (Len(ledger') - Len(ledger)) = 1]_vars

\* C7: when the file has a record dated D, get_latest_position(D) returns
\* the positions and the id of the record dated D with the highest id.
C7_LatestAsOf ==
    (answer # NoAnswer /\ HasRecord(ledger, answer.date)) =>
        answer.result = Returned(LatestOf(ledger, answer.date).positions,
                                 LatestOf(ledger, answer.date).id)

\* The queried date has two records whose ids decrease in file order, and a
\* record of another date has a higher id than both.
C7_Witness ==
    /\ answer # NoAnswer
    /\ \E i, j, k \in DOMAIN ledger :
        /\ i < j
        /\ ledger[i].date = answer.date
        /\ ledger[j].date = answer.date
        /\ ledger[i].id > ledger[j].id
        /\ ledger[k].date # answer.date
        /\ ledger[k].id > ledger[i].id

C9_NoTradeRoundTrip ==
    /\ [](lastCall.op = "add_no_trade_record" => ~lastCall.raised)
    /\ [][(/\ lastCall.op = "add_no_trade_record"
           /\ lastCall'.op = "add_no_trade_record"
           /\ lastCall'.date = lastCall.date
           /\ ledger' # ledger)
             => /\ AppendsOne
                /\ ledger # <<>>
                /\ Last(ledger').id = Last(ledger).id + 1
                /\ Last(ledger').positions = Last(ledger).positions
                /\ Last(ledger').date = Last(ledger).date
                /\ Last(ledger').this_action = Last(ledger).this_action
                /\ Last(ledger).this_action.action = "no_trade"]_vars

\* C10: the no-trade record appended to a ledger that has records carries
\* the positions of the record that had the highest id before the append.
C10_NoTradeCarriesForward ==
    [][(/\ ledger # <<>>
        /\ AppendsOne
        /\ Last(ledger').this_action.action = "no_trade")
          => \E i \in DOMAIN ledger :
                /\ ledger[i].id = MaxIdOf(ledger)
                /\ Last(ledger').positions = ledger[i].positions]_vars

\* The label of the weekday preceding the day of a reference label.
PrecedingLabel(reference_date) ==
    [day |-> PrecedingWeekday(reference_date.day), hour |-> NoHour]

\* The asset keys, other than CASH, of the positions of any record.
SeenAssets(lines) == UNION {(DOMAIN lines[i].positions) \ {"CASH"} : i \in DOMAIN lines}

\* The positions hold a stock in a quantity other than zero.
HoldsStock(positions) ==
    \E k \in (DOMAIN positions) \ {"CASH"} : positions[k] # 0

\* get_today_init_position was asked, of a file with records, about a
\* reference label whose preceding label has no record.
HoldingsFallback ==
    /\ answer.op = "get_today_init_position"
    /\ ledger # <<>>
    /\ ~HasRecord(ledger, PrecedingLabel(answer.date))

\* C11: pre-ledger synthesis: with no record for the preceding label and the
\* earliest record dated after the reference date, the result maps every
\* asset seen in the ledger to 0, holds no stock, has the CASH of the
\* earliest record when that record holds no stock and 10000 otherwise, and
\* is exactly {CASH: c} when the earliest record's positions are {CASH: c}.
C11_PreLedgerSynthesis ==
    (HoldingsFallback
        /\ DateStringLess(answer.date, EarliestRecord(ledger).date)) =>
        LET earliest == EarliestRecord(ledger).positions
            result == answer.result.positions
        IN  /\ ~answer.result.raised
            /\ SeenAssets(ledger) \subseteq DOMAIN result
            /\ ~HoldsStock(result)
            /\ "CASH" \in DOMAIN result
            /\ result["CASH"] = IF HoldsStock(earliest) THEN DefaultCash
                                ELSE DictGet(earliest, "CASH", DefaultCash)
            /\ (DOMAIN earliest = {"CASH"}) => result = earliest

\* C12: when the weekday preceding the reference date has a record and its
\* highest-id record has positions, get_today_init_position returns exactly
\* those positions, whatever else the file holds.
C12_PrecedingLabelFound ==
    (/\ answer.op = "get_today_init_position"
     /\ HasRecord(ledger, PrecedingLabel(answer.date))
     /\ LatestOf(ledger, PrecedingLabel(answer.date)).positions # EmptyDict) =>
        answer.result =
            Holdings(LatestOf(ledger, PrecedingLabel(answer.date)).positions)

\* C13: with no record for the preceding label and the earliest record dated
\* at or before the reference date, the result is the positions of the
\* earliest record of the file (least date, then least id).
C13_EarliestRecordPositions ==
    (HoldingsFallback
        /\ ~DateStringLess(answer.date, EarliestRecord(ledger).date)) =>
        answer.result = Holdings(EarliestRecord(ledger).positions)

\* C14: on a ledger without records (file missing or empty)
\* get_today_init_position returns the empty mapping and does not raise.
C14_EmptyLedgerEmptyMapping ==
    (answer.op = "get_today_init_position" /\ ledger = <<>>) =>
        answer.result = Holdings(EmptyDict)

\* C17: for an hour-bucket label get_today_init_position and
\* get_latest_position (on which add_no_trade_record rests) return without
\* raising, whatever the file holds.
C17_HourLabelNeverRaises ==
    (answer.op # "" /\ answer.date.hour # NoHour) => ~answer.result.raised

IsRecordLine(line) == ~IsMalformed(line)

\* The file with its malformed lines taken out.
WithoutMalformed(lines) == SelectSeq(lines, IsRecordLine)

\* What the scan `op`, asked about `date`, hands back on a file.
ScanResult(op, date, file_exists, lines) ==
    CASE op = "get_latest_position" -> get_latest_position(file_exists, lines, date)
      [] op = "get_today_init_position" ->
             get_today_init_position(file_exists, lines, date)
      [] op = "_record_local_position" -> NextIdResult(file_exists, lines)
      [] op = "_get_local_positions" ->
             LocalPositionsResult(file_exists, lines, INITIAL_CASH)
      [] op = "get_trading_dates" -> AlreadyProcessedResult(file_exists, lines, date)

\* C15: every scan of the ledger hands back on a file with a corrupt or
\* blank line what it hands back on the file without that line: the line
\* neither changes the result nor makes the scan raise.
C15_MalformedLineTolerance ==
    (answer.op # "") =>
        answer.result = ScanResult(answer.op, answer.date, exists,
                                   WithoutMalformed(ledger))

\* C16: an OSError of the ledger file during an append or a query leaves
\* the operation as a raised error and the cycle is over: it is not turned
\* into a returned error of another kind or into a finished cycle.
C16_StorageErrorSurfaces ==
    (storageError.op # "") => (storageError.surfaced = "raised" /\ pc = "idle")

\* The calendar date of the instant is a Saturday or a Sunday (day 0 is a
\* Friday).
OnWeekend(dt) == (dt.day + 4) % 7 \in {5, 6}

\* Neither a weekend day nor a holiday.
TradingDay(dt) == ~OnWeekend(dt) /\ dt.day \notin holidays

\* A trading day, from 09:30:00 to 16:00:00, both included.
InSession(dt) ==
    /\ TradingDay(dt)
    /\ 9 * 3600 + 30 * 60 <= dt.sec
    /\ dt.sec <= 16 * 3600

\* C18: is_trading_day is false when the date of the instant is a Saturday,
\* a Sunday or a holiday, and true in every other case.
C18_TradingDay ==
    (answer.op = "is_trading_day") => (answer.result.value = TradingDay(answer.dt))

\* Asked about Good Friday 2024-03-29, a weekday and a holiday.
C18_Witness ==
    /\ answer.op = "is_trading_day"
    /\ answer.dt.day = 28
    /\ ~OnWeekend(answer.dt)
    /\ answer.result.value = FALSE

\* C19: is_market_hours is true exactly on a trading day from 09:30:00 to
\* 16:00:00, both ends included.
C19_SessionBoundary ==
    (answer.op = "is_market_hours") => (answer.result.value = InSession(answer.dt))

\* Asked at 16:00:00 of a trading day: in session.
C19_Witness ==
    /\ answer.op = "is_market_hours"
    /\ TradingDay(answer.dt)
    /\ answer.dt.sec = 16 * 3600
    /\ answer.result.value = TRUE

\* C20: get_current_trading_hour returns the label of the date and hour of
\* the instant when the instant is in session and its hour is one of 10 to
\* 16, and None in every other case (so from 09:30 to 09:59).
C20_DecisionHour ==
    (answer.op = "get_current_trading_hour") =>
        answer.result.label =
            IF InSession(answer.dt) /\ (answer.dt.sec \div 3600) \in 10..16
            THEN [day |-> answer.dt.day, hour |-> answer.dt.sec \div 3600]
            ELSE None

\* Asked at 09:45:00 of a trading day, in session: None.
C20_Witness ==
    /\ answer.op = "get_current_trading_hour"
    /\ InSession(answer.dt)
    /\ answer.dt.sec = 9 * 3600 + 45 * 60
    /\ answer.result.label = None

\* The instant is in session and its hour is before 16.
BeforeLastHour(dt) == InSession(dt) /\ dt.sec \div 3600 < 16

\* The trading days, among today and the ten days after it, whose 10:00:00
\* lies strictly after the instant.
CandidateDays(dt) ==
    {d \in dt.day..(dt.day + 10) :
        /\ TradingDay([day |-> d, sec |-> 0])
        /\ d > dt.day \/ dt.sec < 10 * 3600}

Earliest(days) == CHOOSE d \in days : \A e \in days : d <= e

\* C21: for an instant in session before hour 16, get_next_trading_time
\* returns the top of the next hour of the same date (10:00 from 09:30 to
\* 09:59) and the label of that hour.
C21_NextHourInSession ==
    (answer.op = "get_next_trading_time" /\ BeforeLastHour(answer.dt)) =>
        LET hour == (answer.dt.sec \div 3600) + 1 IN
        /\ answer.result.next.dt = [day |-> answer.dt.day, sec |-> hour * 3600]
        /\ answer.result.next.label = [day |-> answer.dt.day, hour |-> hour]

\* Asked at 09:45:00 in session: 10:00:00 of the same day.
C21_Witness ==
    /\ answer.op = "get_next_trading_time"
    /\ InSession(answer.dt)
    /\ answer.dt.sec = 9 * 3600 + 45 * 60
    /\ answer.result.next.dt = [day |-> answer.dt.day, sec |-> 10 * 3600]

\* C22: for an instant out of session, or in session at hour 16,
\* get_next_trading_time returns 10:00 of the earliest trading day whose
\* 10:00 is strictly after the instant, when the dates searched hold one.
C22_NextTradingDayOutOfSession ==
    (/\ answer.op = "get_next_trading_time"
     /\ ~BeforeLastHour(answer.dt)
     /\ CandidateDays(answer.dt) # {}) =>
        LET day == Earliest(CandidateDays(answer.dt)) IN
        /\ answer.result.next.dt = [day |-> day, sec |-> 10 * 3600]
        /\ answer.result.next.label = [day |-> day, hour |-> 10]

\* Asked on a Friday after the close, the Monday after it being a trading
\* day: 10:00 of that Monday.
C22_Witness ==
    /\ answer.op = "get_next_trading_time"
    /\ answer.dt.day = 0
    /\ answer.dt.sec > 16 * 3600
    /\ answer.result.next.dt = [day |-> 3, sec |-> 10 * 3600]

\* C23: get_next_trading_time looks at no more than 10 dates, and when none
\* of the ten days after an instant out of session is a trading day it
\* returns the instant plus 7 days.
C23_BoundedSearch ==
    (answer.op = "get_next_trading_time") =>
        /\ answer.result.next.inspected <= 10
        /\ (~BeforeLastHour(answer.dt) /\ CandidateDays(answer.dt) = {}) =>
               /\ answer.result.next.dt =
                      [day |-> answer.dt.day + 7, sec |-> answer.dt.sec]
               /\ answer.result.next.label =
                      [day |-> answer.dt.day + 7, hour |-> answer.dt.sec \div 3600]

\* Ten dates looked at, none a trading day: the instant plus 7 days.
C23_Witness ==
    /\ answer.op = "get_next_trading_time"
    /\ CandidateDays(answer.dt) = {}
    /\ answer.result.next.inspected = 10
    /\ answer.result.next.dt.day = answer.dt.day + 7

\* C24: get_trading_hours_today returns the empty list off a trading day and
\* the labels of the hours 10 to 16 of the date, in this order, on one.
C24_TradingHoursToday ==
    (answer.op = "get_trading_hours_today") =>
        answer.result.hours =
            IF TradingDay(answer.dt)
            THEN [i \in 1..7 |-> [day |-> answer.dt.day, hour |-> 9 + i]]
            ELSE <<>>

\* Asked on a trading day: seven labels, the last one of 16:00.
C24_Witness ==
    /\ answer.op = "get_trading_hours_today"
    /\ TradingDay(answer.dt)
    /\ Len(answer.result.hours) = 7
    /\ answer.result.hours[7].hour = 16

\* The snapshot of a line has a CASH entry that is not negative.
CashPresentNonNegative(line) ==
    /\ "CASH" \in DOMAIN line.positions
    /\ line.positions["CASH"] >= 0

\* C29: in every snapshot that buy_alpaca, sell_alpaca, the sync or the
\* no-trade appended to the ledger, the CASH entry is present and is not
\* negative.
C29_CashNonNegative ==
    \A i \in DOMAIN ledger :
        (~IsMalformed(ledger[i]) /\ ledger[i].this_action.action # "init")
            => CashPresentNonNegative(ledger[i])

\* An append has returned to its caller: a tool call recorded a trade or a
\* sync, or add_no_trade_record wrote its record.
AppendReturned ==
    \/ cycleAppends' = cycleAppends + 1
    \/ /\ lastCall'.op = "add_no_trade_record"
       /\ ~lastCall'.raised
       /\ ledger' # ledger

\* C30: an append cut off before its newline damages only its own record:
\* the records written before it and every record appended after it are
\* read back by the scans, each as its own record, and only the cut-off
\* text is skipped.
C30_PartialWriteDamagesOnlyItself ==
    [][AppendReturned =>
          /\ Len(ledger') = Len(ledger) + 1
          /\ ~IsMalformed(Last(ledger'))
          /\ WithoutMalformed(ledger') =
                 Append(WithoutMalformed(ledger), Last(ledger'))]_vars

\* The signature of the model whose cycle the run j is in.
CycleSignature(j) == enabled_models[jobs[j].model]

\* The step starts a decision cycle in the run j.
StartsCycle(j) == jobs[j].pc # "cycle" /\ jobs'[j].pc = "cycle"

\* The step is a tool call of the cycle of the run j that wrote a record.
ToolWrote(j) ==
    jobs[j].pc = "cycle" /\ jobs'[j].appends = jobs[j].appends + 1

\* The step ends the cycle of the run j.
EndsCycle(j) == jobs[j].pc = "cycle" /\ jobs'[j].pc # "cycle"

\* Every ledger the step changed got one more line, dated `label`.
WritesDated(label) ==
    \A sig \in Signatures :
        (files'[sig] # files[sig]) =>
            /\ Len(files'[sig].lines) = Len(files[sig].lines) + 1
            /\ Last(files'[sig].lines).date = label

\* C25: a decision cycle starts only at an instant for which
\* get_current_trading_hour gives a label, and it runs with that label: the
\* runtime TODAY_DATE is set to it and every record of the cycle is dated
\* with it.  At an instant without a label (non-trading day, outside the
\* session, the open hour) trading_job and run_live start no cycle and
\* leave every ledger as it is.
C25_ResolverGating ==
    [][\A j \in Jobs :
          /\ StartsCycle(j) =>
                 /\ get_current_trading_hour(now) # None
                 /\ jobs'[j].label = get_current_trading_hour(now)
                 /\ TODAY_DATE' = get_current_trading_hour(now)
          /\ (ToolWrote(j) \/ EndsCycle(j)) => WritesDated(jobs[j].label)
          /\ (/\ get_current_trading_hour(now) = None
              /\ main \/ cron_job \/ run_live(j))
                 => (files' = files /\ cycles' = cycles /\ ~StartsCycle(j))]_vars

\* C26: at no time are two decision cycles of the same identity in
\* progress, whatever the interleaving of the start-up run of trading_job
\* and the runs the cron trigger starts.
C26_NoOverlapPerIdentity ==
    \A j1, j2 \in Jobs :
        (j1 # j2 /\ jobs[j1].pc = "cycle" /\ jobs[j2].pc = "cycle")
            => CycleSignature(j1) # CycleSignature(j2)

\* A record of a decision (trade, sync or no-trade) dated `label`.
HasDecisionRecord(lines, label) ==
    \E i \in DOMAIN lines :
        /\ ~IsMalformed(lines[i])
        /\ lines[i].date = label
        /\ lines[i].this_action.action # "init"

\* C27: for each identity and label, run_live starts the decision cycle
\* when none was started for the label before and starts none when one was;
\* a cycle is held back only by a decision record dated with the label.
C27_OneCyclePerTick ==
    [][\A j \in Jobs :
          LET label == get_current_trading_hour(now)
              signature == CycleSignature(j)
          IN  (run_live(j) /\ label # None) =>
                  /\ StartsCycle(j) <=> (<<signature, label>> \notin cycles)
                  /\ ~StartsCycle(j) =>
                         HasDecisionRecord(files[signature].lines, label)]_vars

\* C28: a step of the cycle of identity A (a tool call that records, the
\* end of the cycle) changes the ledger of A only, and what it writes is
\* dated with the label of A's cycle, whatever the other runs have put
\* into the runtime configuration.
C28_IdentityIsolation ==
    [][\A j \in Jobs :
          (ToolWrote(j) \/ EndsCycle(j)) =>
              /\ \A sig \in Signatures \ {CycleSignature(j)} :
                     files'[sig] = files[sig]
              /\ WritesDated(jobs[j].label)]_vars

\* The instant a trigger of CronTrigger(hour="10,...,16", minute=5) fires at
\* for the hour of a label.
FiringFor(label) == [day |-> label.day, sec |-> label.hour * 3600 + 5 * 60]

\* C36: on a trading day the firing of the scheduler for each label of
\* get_trading_hours_today (minute 5 of its hour) passes the gate, that is
\* get_current_trading_hour at the firing returns the label; and a label
\* that get_current_trading_hour returns is one of get_trading_hours_today
\* of its date.
C36_SchedulerAgreesWithResolver ==
    /\ (answer.op = "get_trading_hours_today") =>
           \A i \in DOMAIN answer.result.hours :
               get_current_trading_hour(FiringFor(answer.result.hours[i]))
                   = answer.result.hours[i]
    /\ (answer.op = "get_current_trading_hour" /\ answer.result.label # None) =>
           \E i \in DOMAIN get_trading_hours_today(answer.dt) :
               get_trading_hours_today(answer.dt)[i] = answer.result.label

\* The instant a is later than the instant b.
LaterThan(a, b) == a.day > b.day \/ (a.day = b.day /\ a.sec > b.sec)

\* The label a is after the label b.
LabelAfter(a, b) == a.day > b.day \/ (a.day = b.day /\ a.hour > b.hour)

\* C37: get_next_trading_time returns a timestamp strictly later than the
\* instant; when the dates searched hold a trading day the timestamp is on
\* a trading day, at minute 0 of one of the hours 10 to 16, and
\* get_current_trading_hour of it is the label returned; and the label of
\* the timestamp that follows it is after its own.
C37_NextIsLaterAndValid ==
    (answer.op = "get_next_trading_time") =>
        LET next == answer.result.next
            following == get_next_trading_time(next.dt)
        IN  /\ LaterThan(next.dt, answer.dt)
            /\ (BeforeLastHour(answer.dt) \/ CandidateDays(answer.dt) # {}) =>
                   /\ TradingDay(next.dt)
                   /\ next.dt.sec % 3600 = 0
                   /\ (next.dt.sec \div 3600) \in 10..16
                   /\ get_current_trading_hour(next.dt) = next.label
            /\ LabelAfter(following.label, next.label)

\* Asked on a Saturday: 10:00 of the Monday, which has that label.
C37_Witness ==
    /\ answer.op = "get_next_trading_time"
    /\ answer.dt.day = 1
    /\ answer.result.next.dt = [day |-> 3, sec |-> 10 * 3600]
    /\ get_current_trading_hour(answer.result.next.dt) = answer.result.next.label

\* The order reached a filled state with a fill price while it was polled.
FilledWithPrice(o) ==
    /\ o.side \in {"buy", "sell"}
    /\ o.status \in {"filled", "partially_filled"}
    /\ o.filled_avg_price # 0

\* C31: a call of buy_alpaca or sell_alpaca appends a record if and only if
\* the order reached a filled state with a fill price within the polling
\* window; every other outcome leaves the ledger and IF_TRADE unchanged.
C31_RecordIffFilled ==
    [][(buy_alpaca \/ sell_alpaca) =>
          /\ AppendsOne <=> FilledWithPrice(broker')
          /\ ~FilledWithPrice(broker') => UNCHANGED <<exists, ledger, IF_TRADE>>]_vars

\* The step is a call of buy_alpaca or sell_alpaca that appended its record.
TradeRecorded ==
    /\ buy_alpaca_of(Quantities \cup Lots) \/ sell_alpaca_of(Quantities \cup Lots)
    /\ AppendsOne

\* The snapshot the ledger showed before the step.
SnapshotBefore == _get_local_positions(exists, ledger, INITIAL_CASH)

\* +1 for a buy, -1 for a sell.
SideSign(o) == IF o.side = "buy" THEN 1 ELSE 0 - 1

\* C32: in the record of a buy (sell) at fill price p the quantity of the
\* symbol is the quantity of the snapshot before plus (minus) the number of
\* shares the broker filled, and CASH is the CASH before minus (plus) p times
\* that number, also for a partially_filled order; a sell leaves no entry
\* of zero or less for the symbol.
C32_BooksFilledQuantity ==
    [][TradeRecorded =>
          LET o == broker'
              after == Last(ledger').positions
          IN  /\ DictGet(after, o.symbol, 0)
                     = DictGet(SnapshotBefore, o.symbol, 0)
                           + SideSign(o) * o.filled_qty
              /\ DictGet(after, "CASH", 0)
                     = DictGet(SnapshotBefore, "CASH", 0)
                           - SideSign(o) * o.filled_avg_price * o.filled_qty
              /\ (o.side = "sell" /\ o.symbol \in DOMAIN after) =>
                     after[o.symbol] > 0]_vars

\* The record with the greatest id, the last such line when ids repeat.
HighestIdRecord(lines) ==
    lines[CHOOSE i \in DOMAIN lines :
              /\ lines[i].id = MaxIdOf(lines)
              /\ \A j \in DOMAIN lines : lines[j].id = MaxIdOf(lines) => j <= i]

\* The positions `previous` after the trade of the record rec: CASH less
\* (plus) price times amount, the symbol plus (less) amount, and no entry
\* for a symbol sold out.
AfterTrade(previous, rec) ==
    LET t == rec.this_action
        sign == IF t.action = "buy" THEN 1 ELSE 0 - 1
        p1 == DictSet(previous, "CASH",
                      DictGet(previous, "CASH", 0) - sign * t.price * t.amount)
        p2 == DictSet(p1, t.symbol, DictGet(p1, t.symbol, 0) + sign * t.amount)
    IN  IF t.action = "sell" /\ p2[t.symbol] <= 0 THEN DictPop(p2, t.symbol)
        ELSE p2

\* C33: the positions of an appended buy or sell record are the positions
\* of the record that had the highest id before the append, changed in the
\* CASH entry and in the entry of the traded symbol by the trade: every
\* other asset is there with the same quantity, and none is introduced.
C33_TradeContinuity ==
    [][(TradeRecorded /\ ledger # <<>>) =>
          LET previous == HighestIdRecord(ledger).positions
              after == Last(ledger').positions
              others(p) == DOMAIN p \ {"CASH", broker'.symbol}
          IN  /\ others(after) = others(previous)
              /\ \A k \in others(after) : after[k] = previous[k]
              /\ after = AfterTrade(previous, Last(ledger'))]_vars

\* The quantity is a whole number of shares.
WholeShares(qty) == qty.tenths = 0

\* C34: a call of sync_positions_from_alpaca that reaches the broker appends
\* one record, of action sync and with the next id, whose positions are the
\* broker's state: CASH is the broker's cash and the other entries are the
\* broker's positions, each with its quantity; a call that the broker fails
\* leaves the ledger unchanged.
C34_SyncRecordsBrokerState ==
    [][(sync_positions_from_alpaca /\ broker'.side = "sync") =>
          IF broker'.status = "ok"
          THEN LET rec == Last(ledger') IN
               /\ AppendsOne
               /\ rec.this_action.action = "sync"
               /\ rec.id = (IF ledger = <<>> THEN 0 ELSE MaxIdOf(ledger)) + 1
               /\ DOMAIN rec.positions = {"CASH"} \cup DOMAIN broker'.positions
               /\ rec.positions["CASH"] = broker'.cash
               /\ \A k \in DOMAIN broker'.positions :
                      /\ WholeShares(broker'.positions[k])
                      /\ rec.positions[k] = broker'.positions[k].whole
          ELSE UNCHANGED <<exists, ledger>>]_vars

\* The records of the file dated before the label.
DatedBefore(lines, date) ==
    {lines[i] : i \in {j \in DOMAIN lines : DateStringLess(lines[j].date, date)}}

\* C35: when the file has a record dated before the reference date,
\* get_today_init_position returns the positions of a record of the highest
\* id among the records dated before it, whether the preceding weekday has
\* a record or not.
C35_SeedIsMostRecent ==
    (answer.op = "get_today_init_position"
        /\ DatedBefore(ledger, answer.date) # {}) =>
        \E r \in DatedBefore(ledger, answer.date) :
            /\ \A q \in DatedBefore(ledger, answer.date) : q.id <= r.id
            /\ answer.result = Holdings(r.positions)

====
